---- MODULE Spec2Model ----
(***************************************************************************)
(* A131SpindleControl (src/modules/tools/spindle/A131SpindleControl.cpp):  *)
(* the RS485 driver of the A131 inverter.  The four methods turn_on,       *)
(* turn_off, set_speed and report_speed are modelled statement by          *)
(* statement; every call on a collaborator (dir_output, delay, serial,     *)
(* streams) is one step, so that callers can interleave between them.      *)
(*                                                                         *)
(* Sequences are 1-based: C index i of a char array is index i+1 here.     *)
(* char is the unsigned 8-bit char of the ARM EABI the firmware is built   *)
(* for; int and unsigned int are 32 bits wide.                             *)
(***************************************************************************)
EXTENDS Integers, Sequences, FiniteSets, TLC

VARIABLES
    pc,            \* per caller: the statement it is about to execute
    op,            \* per caller: the method it last entered
    arg,           \* per caller: target_rpm of its set_speed call
    msg,           \* per caller: the local 9-byte message array
    ev,            \* per caller: the collaborator calls of its current invocation
    speed,         \* per caller: the local char speed[13] of report_speed
    idx,           \* per caller: the loop variable i of report_speed
    lastReadable,  \* per caller: result of its latest serial->readable()
    drained,       \* per caller: its drain loop dropped at least one byte
    tookStale,     \* per caller: a frame read returned a byte that was buffered at the drain's end
    out,           \* per caller: what its current invocation printed
    dir,           \* modbus->dir_output, TRUE when the transmitter is enabled
    spindle_on,    \* the on/off flag
    lastPower,     \* which of turn_on / turn_off returned last
    delay_time,    \* modbus->delay_time, in microseconds per byte
    rx,            \* the receive buffer of modbus->serial
    drvFrame,      \* the status frame the inverter is sending
    drvPos,        \* bytes of drvFrame the inverter has sent so far
    calls,         \* invocations of turn_on, turn_off, set_speed entered so far
    writes,        \* frames written to the transport so far
    lowWrite,      \* per caller: it wrote its frame while the direction line was deasserted
    cleared,       \* per caller: another caller deasserted the line between its assert and its write
    lastPowerFrame \* which of turn_on / turn_off wrote the latest power frame

vars == <<pc, op, arg, msg, ev, speed, idx, lastReadable, drained, tookStale, out,
          dir, spindle_on, lastPower, delay_time, rx, drvFrame, drvPos,
          calls, writes, lowWrite, cleared, lastPowerFrame>>

callerVars == <<op, arg, msg, speed, idx, lastReadable, drained, tookStale, out>>
driveVars  == <<rx, drvFrame, drvPos>>
busVars    == <<calls, writes, lowWrite, cleared, lastPowerFrame>>

-----------------------------------------------------------------------------
(* Bounds of the model *)

MaxRx == 1       \* bytes the receive buffer holds before the inverter has to wait
MaxOps == 3      \* invocations of turn_on, turn_off, set_speed in one behaviour

\* target_rpm values tried; all keep target_rpm / 60 * 100 inside int
TargetRpms == {-60, 0, 59, 60, 3000, 3059, 39360}

\* modbus->delay_time values tried (1000 us and 11 bit times at 9600 baud)
DelayTimes == {1000, 1146}

\* digit displays and indicator bytes the inverter is given
DigitTuples == { <<0,0,2,5,0>>, <<1,0,0,0,0>>, <<0,0,9,9,9>> }
Indicators  == { 0, 2, 255 }

\* every value the indicator byte D6 can take
IndicatorBytes == 0..255

-----------------------------------------------------------------------------
(* Integer helpers *)

RECURSIVE Xor(_, _)
\* bitwise exclusive or of two naturals (C operator ^)
Xor(a, b) ==
    IF a = 0 /\ b = 0 THEN 0
    ELSE (((a % 2) + (b % 2)) % 2) + 2 * Xor(a \div 2, b \div 2)

\* conversion of an int to char: the low 8 bits
ToChar(x) == x % 256

\* (char)(x >> 8) of an unsigned int whose bits are those of the int x:
\* bits 8..15 of the two's complement pattern
HighByte(x) == (x \div 256) % 256

\* x & 0xFF, bits 0..7 of the two's complement pattern
LowByte(x) == x % 256

\* C integer division, which truncates toward zero
CDiv(a, b) == IF a >= 0 THEN a \div b ELSE -((-a) \div b)

\* (int)ceil(len * delay_time), delay_time in microseconds, result in ms
DrainDelayFloor(len, dt) == (len * dt) \div 1000
DrainDelay(len, dt) == ((len * dt) + 999) \div 1000

Event(e, a) == [e |-> e, arg |-> a]

-----------------------------------------------------------------------------
(* The command frames *)

\* turn_on_msg as initialised and then patched by the two checksum statements
turn_on_msg ==
    LET m0 == << \h00, \h55, \h00, \h00, \h00, \h01, \h54, \hA9, \hFF >>
        m1 == [m0 EXCEPT ![8] =
                 Xor(m0[3], Xor(m0[4], Xor(m0[5], Xor(m0[6], m0[7]))))]
    IN  [m1 EXCEPT ![9] =
           ToChar(m1[3] + m1[4] + m1[5] + m1[6] + m1[7] + m1[8])]

\* turn_off_msg: the initialiser is sent as it is
turn_off_msg == << \h00, \h55, \h00, \h00, \h01, \h01, \h54, \hA9, \hFF >>

\* unsigned int hz = target_rpm / 60 * 100: the product is formed in int and
\* converted, which keeps its two's complement bits
SpeedHzMulFirst(target_rpm) == CDiv(target_rpm * 100, 60)
SpeedHzRounded(target_rpm) == CDiv(target_rpm + 30, 60) * 100
SpeedHz(target_rpm) == CDiv(target_rpm, 60) * 100

\* set_speed_msg after the two frequency bytes were stored
set_speed_msg(target_rpm) ==
    LET m0 == << \h00, \h55, \h00, \h00, \h06, \h01, \h54, \hA9, \hFF >>
        hz == SpeedHz(target_rpm)
        m1 == [m0 EXCEPT ![4] = HighByte(hz)]
    IN  [m1 EXCEPT ![5] = LowByte(hz)]

-----------------------------------------------------------------------------
(* The status frame of the inverter *)

RECURSIVE XorAll(_)
XorAll(s) == IF s = <<>> THEN 0 ELSE Xor(Head(s), XorAll(Tail(s)))

RECURSIVE SumAll(_)
SumAll(s) == IF s = <<>> THEN 0 ELSE Head(s) + SumAll(Tail(s))

\* 00 55 D1 D2 D3 D4 D5 D6 01 00 XOR ADD FF, XOR over bytes 2~10, ADD over bytes 2~11
StatusFrame(d, d6) ==
    LET body == << \h55, d[1], d[2], d[3], d[4], d[5], d6, \h01, \h00 >>
        x    == XorAll(body)
    IN  << \h00 >> \o body \o << x, ToChar(SumAll(body) + x), \hFF >>

StatusFrames == { StatusFrame(d, d6) : d \in DigitTuples, d6 \in Indicators }

\* unsigned int hz = speed[3]*100 + speed[4]*10 + speed[5]*1 + speed[6]*0.1 + speed[7]*0.01
\* The sum is formed in double and truncated by the conversion; for char
\* operands the truncated double equals the integer expression below.
DecodeHz(s) == (s[4] * 100) + (s[5] * 10) + s[6] + (((10 * s[7]) + s[8]) \div 100)

\* unsigned int rpm = hz / 100 * 60
DecodeRpmMulFirst(hz) == (hz * 60) \div 100
DecodeRpm(hz) == (hz \div 100) * 60

ZeroSpeed == [i \in 1..13 |-> 0]

-----------------------------------------------------------------------------
(* Initial states *)

InitWith(callers, frames) ==
    /\ pc = [c \in callers |-> "idle"]
    /\ op = [c \in callers |-> "none"]
    /\ arg = [c \in callers |-> 0]
    /\ msg = [c \in callers |-> <<>>]
    /\ ev = [c \in callers |-> <<>>]
    /\ speed = [c \in callers |-> ZeroSpeed]
    /\ idx = [c \in callers |-> 0]
    /\ lastReadable = [c \in callers |-> FALSE]
    /\ drained = [c \in callers |-> FALSE]
    /\ tookStale = [c \in callers |-> FALSE]
    /\ out = [c \in callers |-> <<>>]
    /\ dir = FALSE
    /\ spindle_on = FALSE
    /\ lastPower = "none"
    /\ delay_time \in DelayTimes
    /\ rx = <<>>
    /\ drvFrame \in frames
    /\ drvPos = 0
    /\ calls = 0
    /\ writes = 0
    /\ lowWrite = [c \in callers |-> FALSE]
    /\ cleared = [c \in callers |-> FALSE]
    /\ lastPowerFrame = "none"

InitFor(callers) == InitWith(callers, StatusFrames)

Init == InitFor({1})

Idle(c) == pc[c] = "idle"

\* entry of a method: the records of the previous invocation are dropped
Enter(c, name, target_rpm, m) ==
    /\ Idle(c)
    /\ op' = [op EXCEPT ![c] = name]
    /\ arg' = [arg EXCEPT ![c] = target_rpm]
    /\ msg' = [msg EXCEPT ![c] = m]
    /\ ev' = [ev EXCEPT ![c] = <<>>]
    /\ out' = [out EXCEPT ![c] = <<>>]
    /\ speed' = [speed EXCEPT ![c] = ZeroSpeed]
    /\ idx' = [idx EXCEPT ![c] = 0]
    /\ lastReadable' = [lastReadable EXCEPT ![c] = FALSE]
    /\ drained' = [drained EXCEPT ![c] = FALSE]
    /\ tookStale' = [tookStale EXCEPT ![c] = FALSE]
    /\ lowWrite' = [lowWrite EXCEPT ![c] = FALSE]
    /\ cleared' = [cleared EXCEPT ![c] = FALSE]
    /\ UNCHANGED <<writes, lastPowerFrame>>

\* entry of turn_on, turn_off or set_speed, counted
EnterSend(c, name, target_rpm, m) ==
    /\ calls < MaxOps
    /\ Enter(c, name, target_rpm, m)
    /\ calls' = calls + 1
    /\ pc' = [pc EXCEPT ![c] = "set"]
    /\ UNCHANGED <<dir, spindle_on, lastPower, delay_time, driveVars>>

Sending(c) == op[c] \in {"turn_on", "turn_off", "set_speed"}

\* one collaborator call of the transmission: log it and move on
TxStep(c, from, to, e) ==
    /\ Sending(c)
    /\ pc[c] = from
    /\ pc' = [pc EXCEPT ![c] = to]
    /\ ev' = [ev EXCEPT ![c] = Append(@, e)]
    /\ UNCHANGED <<callerVars, spindle_on, lastPower, delay_time, driveVars>>

-----------------------------------------------------------------------------
(* The transmission, the same six statements in turn_on, turn_off, set_speed *)

\* modbus->dir_output->set()
dir_output_set_noop(c) ==
    /\ TxStep(c, "set", "settle", Event("assert", <<>>))
    /\ dir' = dir
    /\ cleared' = [cleared EXCEPT ![c] = FALSE]
    /\ UNCHANGED <<calls, writes, lowWrite, lastPowerFrame>>

dir_output_set(c) ==
    /\ TxStep(c, "set", "settle", Event("assert", <<>>))
    /\ dir' = TRUE
    /\ cleared' = [cleared EXCEPT ![c] = FALSE]
    /\ UNCHANGED <<calls, writes, lowWrite, lastPowerFrame>>

\* modbus->delay(1)
delay_settle(c) ==
    /\ TxStep(c, "settle", "write", Event("delay", <<1>>))
    /\ UNCHANGED <<dir, busVars>>

\* modbus->serial->write(msg, sizeof(msg))
PowerKind(c) == IF op[c] \in {"turn_on", "turn_off"} THEN op[c] ELSE lastPowerFrame

\* the write sent a second time
serial_write_twice(c) ==
    /\ Sending(c)
    /\ pc[c] = "write"
    /\ pc' = [pc EXCEPT ![c] = "drain"]
    /\ ev' = [ev EXCEPT ![c] = Append(Append(@, Event("write", msg[c])), Event("write", msg[c]))]
    /\ writes' = writes + 2
    /\ lowWrite' = [lowWrite EXCEPT ![c] = ~dir]
    /\ lastPowerFrame' = PowerKind(c)
    /\ UNCHANGED <<callerVars, spindle_on, lastPower, delay_time, driveVars, dir, calls, cleared>>

\* the flag set together with the write
serial_write_flag(c) ==
    /\ Sending(c)
    /\ pc[c] = "write"
    /\ pc' = [pc EXCEPT ![c] = "drain"]
    /\ ev' = [ev EXCEPT ![c] = Append(@, Event("write", msg[c]))]
    /\ writes' = writes + 1
    /\ lowWrite' = [lowWrite EXCEPT ![c] = ~dir]
    /\ lastPowerFrame' = PowerKind(c)
    /\ spindle_on' = IF op[c] = "set_speed" THEN spindle_on ELSE (op[c] = "turn_on")
    /\ UNCHANGED <<callerVars, lastPower, delay_time, driveVars, dir, calls, cleared>>

serial_write(c) ==
    /\ TxStep(c, "write", "drain", Event("write", msg[c]))
    /\ writes' = writes + 1
    /\ lowWrite' = [lowWrite EXCEPT ![c] = ~dir]
    /\ lastPowerFrame' = PowerKind(c)
    /\ UNCHANGED <<dir, calls, cleared>>

\* modbus->delay((int)ceil(sizeof(msg) * modbus->delay_time))
delay_drain(c) ==
    /\ TxStep(c, "drain", "clear",
              Event("delay", <<DrainDelay(Len(msg[c]), delay_time)>>))
    /\ UNCHANGED <<dir, busVars>>

\* modbus->dir_output->clear()
\* callers other than c that have asserted the line and not yet written
Overlapped(c) == { d \in DOMAIN pc : d # c /\ Sending(d) /\ pc[d] \in {"settle", "write"} }

dir_output_clear_noop(c) ==
    /\ TxStep(c, "clear", "guard", Event("deassert", <<>>))
    /\ dir' = dir
    /\ cleared' = [d \in DOMAIN pc |-> cleared[d] \/ d \in Overlapped(c)]
    /\ UNCHANGED <<calls, writes, lowWrite, lastPowerFrame>>

dir_output_clear(c) ==
    /\ TxStep(c, "clear", "guard", Event("deassert", <<>>))
    /\ dir' = FALSE
    /\ cleared' = [d \in DOMAIN pc |-> cleared[d] \/ d \in Overlapped(c)]
    /\ UNCHANGED <<calls, writes, lowWrite, lastPowerFrame>>

\* modbus->delay(50)
delay_guard(c) ==
    /\ TxStep(c, "guard", "ret", Event("delay", <<50>>))
    /\ UNCHANGED <<dir, busVars>>

\* return of a method
Return(c, name) ==
    /\ op[c] = name
    /\ pc[c] = "ret"
    /\ pc' = [pc EXCEPT ![c] = "idle"]
    /\ UNCHANGED <<callerVars, ev, dir, delay_time, driveVars, busVars>>

-----------------------------------------------------------------------------
(* turn_on, turn_off, set_speed *)

turn_on_begin(c) ==
    EnterSend(c, "turn_on", 0, turn_on_msg)

\* spindle_on = true
turn_on_end(c) ==
    /\ Return(c, "turn_on")
    /\ spindle_on' = TRUE
    /\ lastPower' = "turn_on"

turn_off_begin(c) ==
    EnterSend(c, "turn_off", 0, turn_off_msg)

\* spindle_on = false
turn_off_end_keep(c) ==
    /\ Return(c, "turn_off")
    /\ spindle_on' = spindle_on
    /\ lastPower' = "turn_off"

turn_off_end(c) ==
    /\ Return(c, "turn_off")
    /\ spindle_on' = FALSE
    /\ lastPower' = "turn_off"

set_speed_begin(c) ==
    \E target_rpm \in TargetRpms :
        EnterSend(c, "set_speed", target_rpm, set_speed_msg(target_rpm))

set_speed_end_on(c) ==
    /\ Return(c, "set_speed")
    /\ spindle_on' = TRUE
    /\ UNCHANGED lastPower

set_speed_end(c) ==
    /\ Return(c, "set_speed")
    /\ UNCHANGED <<spindle_on, lastPower>>

-----------------------------------------------------------------------------
(* report_speed *)

RxByte(v) == [v |-> v, stale |-> FALSE]

\* the bytes still buffered when the drain loop is left
MarkStale(q) == [i \in 1..Len(q) |-> [q[i] EXCEPT !.stale = TRUE]]

\* report_speed with the disabled request transmission switched on
report_speed_begin_tx(c) ==
    /\ Enter(c, "report_speed", 0, <<>>)
    /\ pc' = [pc EXCEPT ![c] = "readable"]
    /\ dir' = TRUE
    /\ UNCHANGED <<calls, spindle_on, lastPower, delay_time, driveVars>>

report_speed_begin(c) ==
    /\ Enter(c, "report_speed", 0, <<>>)
    /\ pc' = [pc EXCEPT ![c] = "readable"]
    /\ UNCHANGED <<calls, dir, spindle_on, lastPower, delay_time, driveVars>>

\* while(modbus->serial->readable()): the loop is left on the first false
DrainExitAlways(q) == TRUE
DrainExit(q) == q = <<>>

\* the loop condition; on exit char speed[13] is zeroed
report_speed_readable(c) ==
    /\ op[c] = "report_speed"
    /\ pc[c] = "readable"
    /\ lastReadable' = [lastReadable EXCEPT ![c] = (rx # <<>>)]
    /\ IF DrainExit(rx)
       THEN /\ pc' = [pc EXCEPT ![c] = "read"]
            /\ speed' = [speed EXCEPT ![c] = ZeroSpeed]
            /\ idx' = [idx EXCEPT ![c] = 0]
            /\ rx' = MarkStale(rx)
       ELSE /\ pc' = [pc EXCEPT ![c] = "discard"]
            /\ UNCHANGED <<speed, idx, rx>>
    /\ UNCHANGED <<op, arg, msg, ev, drained, tookStale, out, dir, spindle_on,
                   lastPower, delay_time, drvFrame, drvPos, busVars>>

\* the loop body modbus->serial->getc(), a blocking read whose value is dropped
report_speed_discard(c) ==
    /\ op[c] = "report_speed"
    /\ pc[c] = "discard"
    /\ rx # <<>>
    /\ rx' = Tail(rx)
    /\ drained' = [drained EXCEPT ![c] = TRUE]
    /\ pc' = [pc EXCEPT ![c] = "readable"]
    /\ UNCHANGED <<op, arg, msg, speed, idx, lastReadable, tookStale, out, ev,
                   dir, spindle_on, lastPower, delay_time, drvFrame, drvPos, busVars>>

\* a getc() that gives up on an empty buffer and returns 0
report_speed_read_timeout(c) ==
    /\ op[c] = "report_speed"
    /\ pc[c] = "read"
    /\ speed' = [speed EXCEPT ![c][idx[c] + 1] = IF rx = <<>> THEN 0 ELSE Head(rx).v]
    /\ tookStale' = [tookStale EXCEPT ![c] = @ \/ (rx # <<>> /\ Head(rx).stale)]
    /\ idx' = [idx EXCEPT ![c] = @ + 1]
    /\ rx' = IF rx = <<>> THEN rx ELSE Tail(rx)
    /\ pc' = [pc EXCEPT ![c] = IF idx[c] + 1 < 13 THEN "read" ELSE "print"]
    /\ UNCHANGED <<op, arg, msg, ev, lastReadable, drained, out, dir,
                   spindle_on, lastPower, delay_time, drvFrame, drvPos, busVars>>

\* the buffer filled from its end
report_speed_read_reversed(c) ==
    /\ op[c] = "report_speed"
    /\ pc[c] = "read"
    /\ rx # <<>>
    /\ speed' = [speed EXCEPT ![c][13 - idx[c]] = Head(rx).v]
    /\ tookStale' = [tookStale EXCEPT ![c] = @ \/ Head(rx).stale]
    /\ idx' = [idx EXCEPT ![c] = @ + 1]
    /\ rx' = Tail(rx)
    /\ pc' = [pc EXCEPT ![c] = IF idx[c] + 1 < 13 THEN "read" ELSE "print"]
    /\ UNCHANGED <<op, arg, msg, ev, lastReadable, drained, out, dir,
                   spindle_on, lastPower, delay_time, drvFrame, drvPos, busVars>>

\* speed[i] = modbus->serial->getc(); i++ of for(int i = 0; i < 13; i++)
report_speed_read(c) ==
    /\ op[c] = "report_speed"
    /\ pc[c] = "read"
    /\ rx # <<>>
    /\ speed' = [speed EXCEPT ![c][idx[c] + 1] = Head(rx).v]
    /\ tookStale' = [tookStale EXCEPT ![c] = @ \/ Head(rx).stale]
    /\ idx' = [idx EXCEPT ![c] = @ + 1]
    /\ rx' = Tail(rx)
    /\ pc' = [pc EXCEPT ![c] = IF idx[c] + 1 < 13 THEN "read" ELSE "print"]
    /\ UNCHANGED <<op, arg, msg, ev, lastReadable, drained, out, dir,
                   spindle_on, lastPower, delay_time, drvFrame, drvPos, busVars>>

\* hz, rpm and THEKERNEL->streams->printf("Current RPM: %d\n", rpm), then return
report_speed_print(c) ==
    /\ op[c] = "report_speed"
    /\ pc[c] = "print"
    /\ out' = [out EXCEPT ![c] = Append(@, DecodeRpm(DecodeHz(speed[c])))]
    /\ pc' = [pc EXCEPT ![c] = "idle"]
    /\ UNCHANGED <<op, arg, msg, ev, speed, idx, lastReadable, drained,
                   tookStale, dir, spindle_on, lastPower, delay_time, driveVars,
                   busVars>>

-----------------------------------------------------------------------------
(* The inverter, which sends its status frame over and over, unasked *)

drive_send ==
    /\ Len(rx) < MaxRx
    /\ rx' = Append(rx, RxByte(drvFrame[drvPos + 1]))
    /\ drvPos' = (drvPos + 1) % 13
    /\ UNCHANGED <<pc, callerVars, ev, dir, spindle_on, lastPower,
                   delay_time, drvFrame, busVars>>

-----------------------------------------------------------------------------
(* The specification: one caller, as the firmware's main loop *)

turn_on(c) ==
    \/ turn_on_begin(c)
    \/ turn_on_end(c)

turn_off(c) ==
    \/ turn_off_begin(c)
    \/ turn_off_end(c)

set_speed(c) ==
    \/ set_speed_begin(c)
    \/ set_speed_end(c)

transmit(c) ==
    \/ dir_output_set(c)
    \/ delay_settle(c)
    \/ serial_write(c)
    \/ delay_drain(c)
    \/ dir_output_clear(c)
    \/ delay_guard(c)

report_speed(c) ==
    \/ report_speed_begin(c)
    \/ report_speed_readable(c)
    \/ report_speed_discard(c)
    \/ report_speed_read(c)
    \/ report_speed_print(c)

Next ==
    \/ \E c \in DOMAIN pc : turn_on(c)
    \/ \E c \in DOMAIN pc : turn_off(c)
    \/ \E c \in DOMAIN pc : set_speed(c)
    \/ \E c \in DOMAIN pc : transmit(c)
    \/ \E c \in DOMAIN pc : report_speed(c)
    \/ drive_send

Spec == Init /\ [][Next]_vars

-----------------------------------------------------------------------------
(* Two callers that send at the same time, with nothing to keep them apart. *)
(* The inverter is left silent: the sending methods never read.             *)

InitConc ==
    /\ InitFor({1, 2})
    /\ drvFrame = StatusFrame(<<0, 0, 2, 5, 0>>, 0)

NextConc ==
    \/ \E c \in DOMAIN pc : turn_on(c)
    \/ \E c \in DOMAIN pc : turn_off(c)
    \/ \E c \in DOMAIN pc : set_speed(c)
    \/ \E c \in DOMAIN pc : transmit(c)

SpecConc == InitConc /\ [][NextConc]_vars

-----------------------------------------------------------------------------
(* One caller that only reads, while the inverter shows 25.00 Hz with every *)
(* indicator byte.                                                          *)

InitRead == InitWith({1}, { StatusFrame(<<0, 0, 2, 5, 0>>, d6) : d6 \in IndicatorBytes })

NextRead ==
    \/ \E c \in DOMAIN pc : report_speed(c)
    \/ drive_send

SpecRead == InitRead /\ [][NextRead]_vars

-----------------------------------------------------------------------------
(* What the transport saw *)

\* the frames the current invocation of caller c has written
Written(c) == { ev[c][i].arg : i \in { j \in 1..Len(ev[c]) : ev[c][j].e = "write" } }

Callers == DOMAIN pc

\* the checksum pair of a 9-byte frame, over its payload (0-based bytes 1..5)
PayloadXor(f) == XorAll(SubSeq(f, 2, 6))
PayloadAdd(f) == (SumAll(SubSeq(f, 2, 6)) + PayloadXor(f)) % 256

-----------------------------------------------------------------------------
(* C1: the frame turn_on writes is exactly 00 55 00 00 00 01 54 A9 FF. *)
C1_TurnOnFrame ==
    \A c \in Callers :
        op[c] = "turn_on" =>
            \A f \in Written(c) : f = <<0, 85, 0, 0, 0, 1, 84, 169, 255>>

(* C2: the frame turn_off writes is the power frame with byte[4] = 0x01 and *)
(* with its two checksum bytes (0-based 6 and 7) recomputed over its        *)
(* payload: XOR of bytes 1..5, and (their sum + XOR) mod 256.               *)
C2_TurnOffChecksum ==
    \A c \in Callers :
        op[c] = "turn_off" =>
            \A f \in Written(c) :
                /\ Len(f) = 9
                /\ f[5] = 1
                /\ f[7] = PayloadXor(f)
                /\ f[8] = PayloadAdd(f)

(* C3: every frame written by turn_on, turn_off or set_speed has its        *)
(* 1-indexed bytes 1, 2, 6 and 9 equal to 0x00, 0x55, 0x01 and 0xFF.        *)
C3_FixedBytes ==
    \A c \in Callers :
        \A f \in Written(c) :
            /\ f[1] = 0
            /\ f[2] = 85
            /\ f[6] = 1
            /\ f[9] = 255

(* C4: the frame set_speed writes carries the checksum of its payload as   *)
(* it is after the frequency bytes were set.                                *)
C4_SpeedChecksum ==
    \A c \in Callers :
        op[c] = "set_speed" =>
            \A f \in Written(c) :
                /\ f[7] = PayloadXor(f)
                /\ f[8] = PayloadAdd(f)

CeilMs(len, dt) == CHOOSE n \in 0..(len * dt) : (n * 1000 >= len * dt) /\ ((n - 1) * 1000 < len * dt)

\* the six bus events of one transmission of frame f
BusSequence(f) ==
    << Event("assert", <<>>), Event("delay", <<1>>), Event("write", f),
       Event("delay", <<CeilMs(Len(f), delay_time)>>),
       Event("deassert", <<>>), Event("delay", <<50>>) >>

(* C6: each invocation of turn_on, turn_off and set_speed produces exactly  *)
(* assert, delay 1, write, delay ceil(length * per_byte_delay), deassert,   *)
(* delay 50: in this order while it runs, and all six once it is through.   *)
C6_BusSequence ==
    \A c \in Callers :
        Sending(c) =>
            /\ Len(ev[c]) <= 6
            /\ ev[c] = SubSeq(BusSequence(msg[c]), 1, Len(ev[c]))
            /\ pc[c] \in {"ret", "idle"} => Len(ev[c]) = 6

\* a transmission is through, with a per-byte delay that is no whole number of ms
C6_Witness ==
    \E c \in Callers :
        /\ Sending(c)
        /\ pc[c] = "idle"
        /\ Len(ev[c]) = 6
        /\ (9 * delay_time) % 1000 # 0

(* C7: the first of the 13 frame reads of report_speed comes only after a   *)
(* readable() that returned false, and no byte that was buffered before     *)
(* that check is part of the frame.                                         *)
C7_DrainBeforeRead ==
    \A c \in Callers :
        (op[c] = "report_speed" /\ (pc[c] \in {"read", "print"} \/ out[c] # <<>>)) =>
            /\ ~lastReadable[c]
            /\ ~tookStale[c]

\* report_speed dropped buffered bytes and then read its 13 bytes
C7_Witness ==
    \E c \in Callers :
        /\ op[c] = "report_speed"
        /\ drained[c]
        /\ idx[c] = 13

\* speed holds a status frame 00 55 D1..D5 D6 01 00 XOR ADD FF with digits 0..9
IsStatusFrame(s) ==
    /\ s[1] = 0 /\ s[2] = 85 /\ s[9] = 1 /\ s[10] = 0 /\ s[13] = 255
    /\ \A i \in 3..7 : s[i] \in 0..9

(* C8: for a status frame with digits D1..D5 (1-indexed bytes 3..7)         *)
(* report_speed reports                                                     *)
(* (floor(D1*100 + D2*10 + D3 + D4/10 + D5/100) div 100) * 60.              *)
C8_ReportedRpm ==
    \A c \in Callers :
        (op[c] = "report_speed" /\ out[c] # <<>> /\ IsStatusFrame(speed[c])) =>
            LET s == speed[c]
                raw == (s[3] * 100) + (s[4] * 10) + s[5] + (((10 * s[6]) + s[7]) \div 100)
            IN  out[c] = << (raw \div 100) * 60 >>

(* C9: once a turn_on or turn_off has returned, the flag is true exactly    *)
(* when the latest of them was turn_on.                                     *)
C9_FlagFollowsPower ==
    /\ lastPower = "turn_on" => spindle_on
    /\ lastPower = "turn_off" => ~spindle_on

\* turn_off has returned after a turn_on had set the flag, and other calls followed
C9_Witness ==
    /\ lastPower = "turn_off"
    /\ \E c \in Callers : op[c] = "set_speed" /\ pc[c] = "idle"

(* C10: set_speed can be entered by an idle caller whether the flag is set  *)
(* or not, none of its steps changes the flag, and when it returns it has   *)
(* written a frame.                                                         *)
C10_SetSpeedAnyState ==
    /\ [](\A c \in Callers : (Idle(c) /\ calls < MaxOps) => ENABLED set_speed_begin(c))
    /\ [](\A c \in Callers :
            (op[c] = "set_speed" /\ pc[c] \in {"ret", "idle"}) => Written(c) # {})
    /\ [][\A c \in Callers :
            (op'[c] = "set_speed" /\ pc'[c] # pc[c]) => spindle_on' = spindle_on]_vars

\* set_speed ran from entry to return with the flag clear
C10_Witness ==
    \E c \in Callers :
        /\ op[c] = "set_speed"
        /\ pc[c] = "idle"
        /\ Written(c) # {}
        /\ ~spindle_on
        /\ lastPower = "turn_off"

-----------------------------------------------------------------------------
(* C11: report_speed is read-only: none of its steps asserts or deasserts  *)
(* the direction line, writes to the transport or changes the flag; it only *)
(* takes bytes from the receive buffer and prints one RPM value.            *)
C11_ReportSpeedReadOnly ==
    /\ [](\A c \in Callers :
            op[c] = "report_speed" =>
                /\ ev[c] = <<>>
                /\ Len(out[c]) <= 1
                /\ (pc[c] = "idle") <=> (Len(out[c]) = 1))
    /\ [][\A c \in Callers :
            (op'[c] = "report_speed" /\ pc'[c] # pc[c]) =>
                /\ dir' = dir
                /\ spindle_on' = spindle_on
                /\ lastPower' = lastPower
                /\ writes' = writes
                /\ (rx' = rx \/ (rx # <<>> /\ rx' = Tail(rx)))]_vars

\* report_speed has run to its end while the spindle was on
C11_Witness ==
    \E c \in Callers :
        /\ op[c] = "report_speed"
        /\ pc[c] = "idle"
        /\ out[c] # <<>>
        /\ drained[c]
        /\ spindle_on

\* callers that have entered a sending method and not yet written its frame
BeforeWrite == { c \in Callers : Sending(c) /\ pc[c] \in {"set", "settle", "write"} }

\* the write events in the log of caller c
WriteEvents(c) == { i \in 1..Len(ev[c]) : ev[c][i].e = "write" }

(* C12: each invocation of turn_on, turn_off or set_speed writes once, 9    *)
(* bytes, and never again: the frames written are as many as the            *)
(* invocations that have reached their write.                               *)
C12_OneWritePerCall ==
    /\ \A c \in Callers :
        Sending(c) =>
            /\ Cardinality(WriteEvents(c)) = (IF c \in BeforeWrite THEN 0 ELSE 1)
            /\ \A f \in Written(c) : Len(f) = 9
    /\ writes = calls - Cardinality(BeforeWrite)

\* several invocations have returned
C12_Witness ==
    /\ calls >= 2
    /\ writes = calls
    /\ \A c \in Callers : Idle(c)

(* C13: report_speed waits without bound: it prints only after a readable() *)
(* that returned false and 13 bytes delivered after it; with the buffer     *)
(* empty in its read loop it has no step to take, and a readable() that     *)
(* finds a byte sends it back to discard.                                   *)
C13_UnboundedWait ==
    /\ [](\A c \in Callers :
            (op[c] = "report_speed" /\ out[c] # <<>>) =>
                (~lastReadable[c] /\ idx[c] = 13 /\ ~tookStale[c]))
    /\ [](\A c \in Callers :
            (op[c] = "report_speed" /\ pc[c] = "read" /\ rx = <<>>) =>
                ~ENABLED report_speed(c))
    /\ [][\A c \in Callers :
            (op[c] = "report_speed" /\ pc[c] = "readable" /\ rx # <<>>
                /\ pc'[c] # pc[c]) => pc'[c] = "discard"]_vars

\* report_speed is stuck in the middle of a frame, the buffer empty
C13_Witness ==
    \E c \in Callers :
        /\ op[c] = "report_speed"
        /\ pc[c] = "read"
        /\ idx[c] \in 1..12
        /\ rx = <<>>

(* C14: with two callers a frame can be written while the direction line is *)
(* deasserted, and only because another caller deasserted the line between  *)
(* the writer's assert and its write.                                       *)
C14_WriteWhileDeasserted ==
    \A c \in Callers : lowWrite[c] => cleared[c]

\* a frame went out with the line deasserted
C14_Witness ==
    \E c \in Callers : lowWrite[c] /\ cleared[c] /\ ~dir

(* C15: a status frame with the digits 0,0,2,5,0 and any indicator byte is  *)
(* reported as RPM 0.                                                       *)
C15_Report25Hz ==
    \A c \in Callers :
        (/\ op[c] = "report_speed"
         /\ out[c] # <<>>
         /\ IsStatusFrame(speed[c])
         /\ SubSeq(speed[c], 3, 7) = <<0, 0, 2, 5, 0>>) => out[c] = <<0>>

\* the 25.00 Hz frame was reported with every indicator bit set
C15_Witness ==
    \E c \in Callers :
        /\ op[c] = "report_speed"
        /\ out[c] # <<>>
        /\ IsStatusFrame(speed[c])
        /\ SubSeq(speed[c], 3, 7) = <<0, 0, 2, 5, 0>>
        /\ speed[c][8] = 255

\* the last n bytes the inverter has sent, oldest first
Stream(n) == [j \in 1..n |-> drvFrame[((drvPos + 26 - n + j - 1) % 13) + 1]]

RxValues == [i \in 1..Len(rx) |-> rx[i].v]

(* C16: after the drain report_speed reads 13 bytes, the i-th read going to *)
(* buffer position i in arrival order, and prints one RPM value after the   *)
(* 13th read and none before.                                               *)
C16_ThirteenReads ==
    \A c \in Callers :
        (op[c] = "report_speed" /\ (pc[c] \in {"read", "print"} \/ out[c] # <<>>)) =>
            /\ idx[c] <= 13
            /\ SubSeq(speed[c], 1, idx[c]) \o RxValues = Stream(idx[c] + Len(rx))
            /\ \A i \in (idx[c] + 1)..13 : speed[c][i] = 0
            /\ pc[c] = "read" => (idx[c] < 13 /\ out[c] = <<>>)
            /\ pc[c] = "print" => (idx[c] = 13 /\ out[c] = <<>>)
            /\ out[c] # <<>> => (idx[c] = 13 /\ Len(out[c]) = 1)

\* all 13 bytes are in and the value is printed
C16_Witness ==
    \E c \in Callers :
        /\ op[c] = "report_speed"
        /\ idx[c] = 13
        /\ Len(out[c]) = 1
        /\ speed[c][1] # speed[c][2]

(* C17: with one caller a frame is written only while the direction line is *)
(* asserted, and the line is deasserted whenever no method is running.      *)
C17_LineFollowsCall ==
    /\ \A c \in Callers : ~lowWrite[c]
    /\ \A c \in Callers : (Sending(c) /\ pc[c] = "write") => dir
    /\ (\A c \in Callers : Idle(c)) => ~dir

\* a transmission has returned and left the line deasserted
C17_Witness ==
    /\ \A c \in Callers : Idle(c)
    /\ \E c \in Callers : Sending(c) /\ Len(ev[c]) = 6
    /\ ~dir

(* C18: for a non-negative target_rpm r set_speed writes the frame of       *)
(* r - (r mod 60); every r in 0..59 writes the frame of 0.                  *)
C18_Quantised ==
    \A c \in Callers :
        (op[c] = "set_speed" /\ arg[c] >= 0) =>
            \A f \in Written(c) :
                /\ f = set_speed_msg(arg[c] - (arg[c] % 60))
                /\ arg[c] \in 0..59 => f = set_speed_msg(0)

\* a target that is no multiple of 60 was sent
C18_Witness ==
    \E c \in Callers :
        /\ op[c] = "set_speed"
        /\ arg[c] > 60
        /\ arg[c] % 60 # 0
        /\ Written(c) # {}

\* the buffer s with all but its digit bytes D1..D5 set to zero
DigitsOnly(s) == [i \in 1..13 |-> IF i \in 3..7 THEN s[i] ELSE 0]

(* C19: the RPM reported depends on the digit bytes D1..D5 alone: it is the *)
(* RPM reported for the frame with the same digits and every other byte 0.  *)
C19_DigitsDecide ==
    \A c \in Callers :
        (op[c] = "report_speed" /\ out[c] # <<>>) =>
            out[c] = << DecodeRpm(DecodeHz(DigitsOnly(speed[c]))) >>

\* the step that may write the flag: the return after the six bus events
AfterGuard(c) ==
    /\ pc[c] = "ret"
    /\ pc'[c] = "idle"
    /\ Len(ev[c]) = 6
    /\ ev[c][3].e = "write"
    /\ ev[c][6] = Event("delay", <<50>>)

(* C20: the flag is written only by the return that follows the 50 ms guard *)
(* delay, so with two callers the flag can end up against the power frame   *)
(* written last.                                                            *)
C20_FlagAfterGuard ==
    [][(spindle_on' # spindle_on \/ lastPower' # lastPower) =>
          \E c \in Callers : AfterGuard(c)]_vars

\* both callers are through, the flag is set, and the off frame went out last
C20_Witness ==
    /\ \A c \in Callers : Idle(c)
    /\ spindle_on
    /\ lastPowerFrame = "turn_off"
    /\ lastPower = "turn_on"

====
